---- MODULE Spec2Model ----
(***************************************************************************)
(* Model of the Gemini proxy handlers of uae-market-hub.                   *)
(*                                                                         *)
(*   "retry"   src/unnamed/part_000   handler with the retry/backoff loop  *)
(*   "plain"   src/unnamed/part_001   handler with a single upstream call  *)
(*   "netlify" src/netlify/functions/gemini-proxy.js   exports.handler     *)
(*                                                                         *)
(* One action is one run of a handler between two await points.  Every     *)
(* per-invocation variable is a function of the invocation id.             *)
(***************************************************************************)
EXTENDS Integers, Sequences, FiniteSets, TLC

VARIABLES
    env,        \* process.env.GEMINI_API_KEY as the process serving the invocation has it
    variant,    \* which handler serves the invocation
    method,     \* req.method / event.httpMethod
    bodyOk,     \* whether the request body can be parsed and destructured
    pc,         \* the await point the invocation is suspended at
    attempt,    \* loop variable `attempt` of the retry loop
    calls,      \* number of fetch() calls issued
    inflight,   \* attempts whose fetch() is not settled yet
    timers,     \* attempts whose setTimeout(abort) timer is pending
    resp,       \* status of the upstream response held in `response`
    delay,      \* duration of the pending backoff timer, NoDelay when none
    waits,      \* number of backoff waits started
    sent,       \* responses handed to the client, in order
    escaped,    \* an exception left the handler
    hist,       \* history: the outcome of each attempt, in order
    apiUrl,     \* the key in the query of `apiUrl`, NoUrl before it is built
    prevDelay   \* history: duration of the backoff wait before the last one started

inputs == <<env, variant, method, bodyOk>>
vars == <<env, variant, method, bodyOk, pc, attempt, calls, inflight, timers,
          resp, delay, waits, sent, escaped, hist, apiUrl, prevDelay>>

----------------------------------------------------------------------------
(* Bounds of the model and the values the environment draws from.          *)

\* Math.random() is drawn in steps of 1/RandomScale from [0, 1).
RandomScale == 1000
RandomSamples == {0, RandomScale \div 2, RandomScale - 1}

\* process.env.GEMINI_API_KEY: not set, set to the empty string, or a key.
Unset == "<undefined>"
Keys == {Unset, "", "key-A"}
Methods == {"OPTIONS", "POST", "GET"}
Variants == {"retry", "plain", "netlify"}
\* Upstream statuses: success, client error, rate limit, server errors.
Statuses == {200, 404, 429, 500, 503}
Bodies == {"body-1", "body-2"}
NetworkMessages == {"fetch failed", "socket hang up"}
AbortMessage == "This operation was aborted"
BodyReadMessage == "Unexpected end of JSON input"
DestructureMessage == "Cannot destructure property 'userInput'"
ParseMessage == "Unexpected token in JSON"
ConfigMessage == "API Key not configured"
NoBody == "<none>"
NoStatus == 0
NoUrl == "<no url>"
NoDelay == 0 - 1

----------------------------------------------------------------------------
(* Retry configuration, src/unnamed/part_000 lines 38-40, 67.              *)

MAX_RETRIES == 5
BASE_DELAY == 200
PER_ATTEMPT_TIMEOUT == 15000
JITTER_BOUND == 120

RECURSIVE Pow2(_)
Pow2(n) == IF n = 0 THEN 1 ELSE 2 * Pow2(n - 1)

\* The test as it would be if written `apiKey === undefined`.
FalsyOnlyUndefined(value) == value = Unset

\* JavaScript `!value` of a string or undefined (the test `!apiKey`)
Falsy(value) == value = Unset \/ value = ""

\* response.ok
ok(status) == status >= 200 /\ status <= 299

\* The retry test as it would be if every status from 400 up were retried.
IsRetryableStatusFrom400(status) == status >= 400

\* line 64: response.status === 429 || response.status >= 500
IsRetryableStatus(status) == status = 429 \/ status >= 500

\* The loop test as it would be if the loop ended one iteration early.
LoopCondOneShort(a) == a < MAX_RETRIES - 1

\* line 42: attempt < MAX_RETRIES
LoopCond(a) == a < MAX_RETRIES

\* The last-attempt test as it would be with an off-by-one bound.
MayRetryOffByOne(a) == a < MAX_RETRIES

\* lines 65 and 84: attempt < MAX_RETRIES - 1
MayRetry(a) == a < MAX_RETRIES - 1

\* lines 67 and 85: Math.random() * 120, in whole milliseconds
Jitter(r) == (r * JITTER_BOUND) \div RandomScale

\* The delay as it would be with a division in place of the multiplication.
BackoffDelayShrinking(a, jitter) == BASE_DELAY \div Pow2(a) + jitter

\* The delay as it would be with `2 * attempt` in place of `2 ** attempt`.
BackoffDelayLinear(a, jitter) == BASE_DELAY * (2 * a) + jitter

\* lines 68 and 86: BASE_DELAY * (2 ** attempt) + jitter
BackoffDelay(a, jitter) == BASE_DELAY * Pow2(a) + jitter

----------------------------------------------------------------------------
(* The responses the handlers build.                                       *)

\* upstream is the upstream status quoted in the error text, NoStatus when none.
Response(status, error, upstream, message, details, body) ==
    [status |-> status, error |-> error, upstream |-> upstream,
     message |-> message, details |-> details, body |-> body]

\* res.status(200).end()
PreflightResponse == Response(200, "", NoStatus, "", NoBody, NoBody)
\* The 405 response as it would be if it were sent with status 400.
MethodNotAllowedResponseAs400 ==
    Response(400, "Method not allowed", NoStatus, "", NoBody, NoBody)
\* res.status(405).json({ error: 'Method not allowed' })
MethodNotAllowedResponse ==
    Response(405, "Method not allowed", NoStatus, "", NoBody, NoBody)
\* res.status(500).json({ error: 'API Key not configured' })
ConfigErrorResponse ==
    Response(500, "API Key not configured", NoStatus, "", NoBody, NoBody)
\* The success response as it would be if the parsed result were not passed on.
SuccessResponseEmpty(result) == Response(200, "", NoStatus, "", NoBody, NoBody)

\* res.status(200).json(result)
SuccessResponse(result) == Response(200, "", NoStatus, "", NoBody, result)
\* res.status(response.status).json({ error: `Gemini API error: ...`, details })
UpstreamErrorResponse(status, errorText) ==
    Response(status, "Gemini API error", status, "", errorText, NoBody)
\* res.status(504).json({ error, message: 'Failed to get response ...', details })
GatewayTimeoutResponse(message) ==
    Response(504, "Gateway timeout", NoStatus,
             "Failed to get response from Gemini API", message, NoBody)
\* res.status(504).json({ error, message: 'Maximum retries exceeded' })
MaxRetriesResponse ==
    Response(504, "Gateway timeout", NoStatus, "Maximum retries exceeded",
             NoBody, NoBody)
\* res.status(500).json({ error: 'Internal server error', message: error.message })
InternalErrorResponse(message) ==
    Response(500, "Internal server error", NoStatus, message, NoBody, NoBody)

\* part_001 line 55, gemini-proxy.js lines 66-70: status 500, { error: error.message }
ErrorMessageResponse(message) ==
    Response(500, message, NoStatus, "", NoBody, NoBody)
\* part_001 lines 46 and 55, gemini-proxy.js lines 53 and 66-70:
\* status 500, { error: `Gemini API error: ${response.status} ${errorText}` }
WrappedUpstreamErrorResponse(status, errorText) ==
    Response(500, "Gemini API error", status, "", errorText, NoBody)

----------------------------------------------------------------------------
(* History of attempts.                                                    *)

\* kind: "status" (a response arrived), "network" or "timeout"; read: how the
\* reading of the body ended: NotRead, ReadFailed or the body that was read.
NotRead == "<not read>"
ReadFailed == "<read failed>"

Outcome(kind, status, msg) ==
    [kind |-> kind, status |-> status, msg |-> msg, read |-> NotRead]

SetRead(h, r) == [h EXCEPT ![Len(h)] = [@ EXCEPT !.read = r]]

----------------------------------------------------------------------------
Invocations == {1}

InitWith(ids, keys) ==
    /\ env \in [ids -> keys]
    /\ variant \in [ids -> Variants]
    /\ method \in [ids -> Methods]
    /\ bodyOk \in [ids -> BOOLEAN]
    /\ pc = [i \in ids |-> "idle"]
    /\ attempt = [i \in ids |-> 0]
    /\ calls = [i \in ids |-> 0]
    /\ inflight = [i \in ids |-> {}]
    /\ timers = [i \in ids |-> {}]
    /\ resp = [i \in ids |-> NoStatus]
    /\ delay = [i \in ids |-> NoDelay]
    /\ waits = [i \in ids |-> 0]
    /\ sent = [i \in ids |-> <<>>]
    /\ escaped = [i \in ids |-> FALSE]
    /\ hist = [i \in ids |-> <<>>]
    /\ apiUrl = [i \in ids |-> NoUrl]
    /\ prevDelay = [i \in ids |-> NoDelay]

InitFor(ids) == InitWith(ids, Keys)

Init == InitFor(Invocations)

----------------------------------------------------------------------------
(* Steps shared by the actions of the retrying handler.                    *)

\* `return res.status(..).json(..)`: the response is sent and the handler ends.
Finish(i, r) ==
    /\ sent' = [sent EXCEPT ![i] = Append(@, r)]
    /\ pc' = [pc EXCEPT ![i] = "done"]

\* lines 69-71 and 87-89: await new Promise(resolve => setTimeout(resolve, delay))
StartBackoff(i, d) ==
    /\ delay' = [delay EXCEPT ![i] = d]
    /\ waits' = [waits EXCEPT ![i] = @ + 1]
    /\ pc' = [pc EXCEPT ![i] = "backoff"]
    /\ UNCHANGED sent

\* The outer catch as it would be if it only logged the error.
OuterCatchLogsOnly(i, message) ==
    /\ pc' = [pc EXCEPT ![i] = "done"]
    /\ UNCHANGED <<sent, escaped>>

\* lines 107-113: the outer catch
OuterCatch(i, message) ==
    /\ Finish(i, InternalErrorResponse(message))
    /\ UNCHANGED escaped

\* lines 82-98: the catch of the attempt's try block
RetryCatch(i, message) ==
    IF MayRetry(attempt[i])
    THEN \E r \in RandomSamples :
             StartBackoff(i, BackoffDelay(attempt[i], Jitter(r)))
    ELSE Finish(i, GatewayTimeoutResponse(message)) /\ UNCHANGED <<delay, waits>>

\* The loop as it would be if `attempt` were a variable of the module, shared
\* by the invocations.
EnterLoopSharedCounter(i, a) ==
    /\ attempt' = [j \in DOMAIN attempt |-> a]
    /\ IF LoopCond(a)
       THEN /\ calls' = [calls EXCEPT ![i] = @ + 1]
            /\ inflight' = [inflight EXCEPT ![i] = @ \cup {a}]
            /\ timers' = [timers EXCEPT ![i] = @ \cup {a}]
            /\ pc' = [pc EXCEPT ![i] = "fetch"]
            /\ UNCHANGED sent
       ELSE /\ Finish(i, MaxRetriesResponse)
            /\ UNCHANGED <<calls, inflight, timers>>

\* lines 42-53: the loop test, then a new controller, its timer and fetch();
\* lines 101-105 when the loop test fails
EnterLoop(i, a) ==
    /\ attempt' = [attempt EXCEPT ![i] = a]
    /\ IF LoopCond(a)
       THEN /\ calls' = [calls EXCEPT ![i] = @ + 1]
            /\ inflight' = [inflight EXCEPT ![i] = @ \cup {a}]
            /\ timers' = [timers EXCEPT ![i] = @ \cup {a}]
            /\ pc' = [pc EXCEPT ![i] = "fetch"]
            /\ UNCHANGED sent
       ELSE /\ Finish(i, MaxRetriesResponse)
            /\ UNCHANGED <<calls, inflight, timers>>

----------------------------------------------------------------------------
(* The retrying handler, src/unnamed/part_000.                             *)

\* lines 1-53: from the call of the handler to the first await
Invoke(i) ==
    /\ pc[i] = "idle"
    /\ variant[i] = "retry"
    /\ IF method[i] = "OPTIONS"
       THEN /\ Finish(i, PreflightResponse)
            /\ UNCHANGED <<attempt, calls, inflight, timers, escaped, apiUrl>>
       ELSE IF method[i] # "POST"
       THEN /\ Finish(i, MethodNotAllowedResponse)
            /\ UNCHANGED <<attempt, calls, inflight, timers, escaped, apiUrl>>
       ELSE IF ~bodyOk[i]
       THEN /\ OuterCatch(i, DestructureMessage)
            /\ UNCHANGED <<attempt, calls, inflight, timers, apiUrl>>
       ELSE IF Falsy(env[i])
       THEN /\ Finish(i, ConfigErrorResponse)
            /\ UNCHANGED <<attempt, calls, inflight, timers, escaped, apiUrl>>
       ELSE /\ apiUrl' = [apiUrl EXCEPT ![i] = env[i]]
            /\ EnterLoop(i, 0)
            /\ UNCHANGED escaped
    /\ UNCHANGED <<inputs, resp, delay, waits, hist, prevDelay>>

\* lines 48-73: fetch() resolves with a response
FetchResponds(i, s) ==
    /\ pc[i] = "fetch"
    /\ variant[i] = "retry"
    /\ attempt[i] \in inflight[i]
    /\ inflight' = [inflight EXCEPT ![i] = @ \ {attempt[i]}]
    /\ timers' = [timers EXCEPT ![i] = @ \ {attempt[i]}]      \* clearTimeout
    /\ resp' = [resp EXCEPT ![i] = s]
    /\ hist' = [hist EXCEPT ![i] = Append(@, Outcome("status", s, ""))]
    /\ IF ok(s)
       THEN /\ pc' = [pc EXCEPT ![i] = "json"]
            /\ UNCHANGED <<sent, delay, waits>>
       ELSE IF IsRetryableStatus(s) /\ MayRetry(attempt[i])
       THEN \E r \in RandomSamples :
                StartBackoff(i, BackoffDelay(attempt[i], Jitter(r)))
       ELSE /\ pc' = [pc EXCEPT ![i] = "text"]
            /\ UNCHANGED <<sent, delay, waits>>
    /\ UNCHANGED <<inputs, apiUrl, prevDelay, attempt, calls, escaped>>

\* lines 48, 82-98: fetch() rejects with a network error
FetchFails(i, message) ==
    /\ pc[i] = "fetch"
    /\ variant[i] = "retry"
    /\ attempt[i] \in inflight[i]
    /\ inflight' = [inflight EXCEPT ![i] = @ \ {attempt[i]}]
    /\ hist' = [hist EXCEPT ![i] = Append(@, Outcome("network", NoStatus, message))]
    /\ RetryCatch(i, message)
    /\ UNCHANGED <<inputs, apiUrl, prevDelay, attempt, calls, timers, resp,
                   escaped>>

\* The timeout as it would be if it rejected the wait without aborting the
\* call (the signal not handed to fetch).
TimeoutFiresWithoutAbort(i, a) ==
    /\ variant[i] = "retry"
    /\ a \in timers[i]
    /\ timers' = [timers EXCEPT ![i] = @ \ {a}]
    /\ IF a \in inflight[i] /\ pc[i] = "fetch" /\ a = attempt[i]
       THEN /\ hist' = [hist EXCEPT ![i] =
                            Append(@, Outcome("timeout", NoStatus, AbortMessage))]
            /\ RetryCatch(i, AbortMessage)
       ELSE UNCHANGED <<hist, pc, sent, delay, waits>>
    /\ UNCHANGED <<inputs, apiUrl, prevDelay, inflight, attempt, calls, resp,
                   escaped>>

\* line 46: the timer of attempt a fires and aborts that attempt's controller;
\* lines 82-98 when the fetch() of that attempt is still in flight
TimeoutFires(i, a) ==
    /\ variant[i] = "retry"
    /\ a \in timers[i]
    /\ timers' = [timers EXCEPT ![i] = @ \ {a}]
    /\ IF a \in inflight[i]
       THEN /\ inflight' = [inflight EXCEPT ![i] = @ \ {a}]
            /\ hist' = [hist EXCEPT ![i] =
                            Append(@, Outcome("timeout", NoStatus, AbortMessage))]
            /\ RetryCatch(i, AbortMessage)
       ELSE UNCHANGED <<inflight, hist, pc, sent, delay, waits>>
    /\ UNCHANGED <<inputs, apiUrl, prevDelay, attempt, calls, resp, escaped>>

\* lines 59-60: response.json() resolves
JsonResolves(i, result) ==
    /\ pc[i] = "json"
    /\ variant[i] = "retry"
    /\ hist' = [hist EXCEPT ![i] = SetRead(@, result)]
    /\ Finish(i, SuccessResponse(result))
    /\ UNCHANGED <<inputs, apiUrl, prevDelay, attempt, calls, inflight,
                   timers, resp, delay, waits, escaped>>

\* lines 59, 82-98: response.json() rejects
JsonRejects(i) ==
    /\ pc[i] = "json"
    /\ variant[i] = "retry"
    /\ hist' = [hist EXCEPT ![i] = SetRead(@, ReadFailed)]
    /\ RetryCatch(i, BodyReadMessage)
    /\ UNCHANGED <<inputs, apiUrl, prevDelay, attempt, calls, inflight,
                   timers, resp, escaped>>

\* lines 76-80: response.text() resolves
TextResolves(i, errorText) ==
    /\ pc[i] = "text"
    /\ variant[i] = "retry"
    /\ hist' = [hist EXCEPT ![i] = SetRead(@, errorText)]
    /\ Finish(i, UpstreamErrorResponse(resp[i], errorText))
    /\ UNCHANGED <<inputs, apiUrl, prevDelay, attempt, calls, inflight,
                   timers, resp, delay, waits, escaped>>

\* lines 76, 82-98: response.text() rejects
TextRejects(i) ==
    /\ pc[i] = "text"
    /\ variant[i] = "retry"
    /\ hist' = [hist EXCEPT ![i] = SetRead(@, ReadFailed)]
    /\ RetryCatch(i, BodyReadMessage)
    /\ UNCHANGED <<inputs, apiUrl, prevDelay, attempt, calls, inflight,
                   timers, resp, escaped>>

\* The loop step as it would be if `continue` did not advance `attempt`.
BackoffElapsedSameAttempt(i) ==
    /\ pc[i] = "backoff"
    /\ variant[i] = "retry"
    /\ prevDelay' = [prevDelay EXCEPT ![i] = delay[i]]
    /\ delay' = [delay EXCEPT ![i] = NoDelay]
    /\ EnterLoop(i, attempt[i])
    /\ UNCHANGED <<inputs, apiUrl, resp, waits, escaped, hist>>

\* lines 70-71, 88-89, 42: the backoff timer fires, `continue`, attempt++
BackoffElapsed(i) ==
    /\ pc[i] = "backoff"
    /\ variant[i] = "retry"
    /\ prevDelay' = [prevDelay EXCEPT ![i] = delay[i]]
    /\ delay' = [delay EXCEPT ![i] = NoDelay]
    /\ EnterLoop(i, attempt[i] + 1)
    /\ UNCHANGED <<inputs, apiUrl, resp, waits, escaped, hist>>

----------------------------------------------------------------------------
(* The handler without retries, src/unnamed/part_001. *)

\* The catch as it would be if the message it reports quoted the request URL.
PlainCatchQuotesUrl(i, r) ==
    /\ Finish(i, ErrorMessageResponse(apiUrl[i]))
    /\ UNCHANGED escaped

\* lines 53-56: the catch of the handler
PlainCatch(i, r) ==
    /\ Finish(i, r)
    /\ UNCHANGED escaped

\* lines 1-42: from the call of the handler to the await of fetch()
PlainInvoke(i) ==
    /\ pc[i] = "idle"
    /\ variant[i] = "plain"
    /\ IF method[i] = "OPTIONS"
       THEN /\ Finish(i, PreflightResponse)
            /\ UNCHANGED <<calls, inflight, escaped, apiUrl>>
       ELSE IF method[i] # "POST"
       THEN /\ Finish(i, MethodNotAllowedResponse)
            /\ UNCHANGED <<calls, inflight, escaped, apiUrl>>
       ELSE IF ~bodyOk[i]
       THEN /\ PlainCatch(i, ErrorMessageResponse(DestructureMessage))
            /\ UNCHANGED <<calls, inflight, apiUrl>>
       ELSE IF Falsy(env[i])
       THEN /\ PlainCatch(i, ErrorMessageResponse(ConfigMessage))
            /\ UNCHANGED <<calls, inflight, apiUrl>>
       ELSE /\ apiUrl' = [apiUrl EXCEPT ![i] = env[i]]
            /\ calls' = [calls EXCEPT ![i] = @ + 1]
            /\ inflight' = [inflight EXCEPT ![i] = @ \cup {0}]
            /\ pc' = [pc EXCEPT ![i] = "fetch"]
            /\ UNCHANGED <<sent, escaped>>
    /\ UNCHANGED <<inputs, attempt, timers, resp, delay, waits, hist,
                   prevDelay>>

\* lines 38-49: fetch() resolves with a response
PlainFetchResponds(i, s) ==
    /\ pc[i] = "fetch"
    /\ variant[i] = "plain"
    /\ inflight' = [inflight EXCEPT ![i] = {}]
    /\ resp' = [resp EXCEPT ![i] = s]
    /\ hist' = [hist EXCEPT ![i] = Append(@, Outcome("status", s, ""))]
    /\ pc' = [pc EXCEPT ![i] = IF ~ok(s) THEN "text" ELSE "json"]
    /\ UNCHANGED <<inputs, apiUrl, prevDelay, attempt, calls, timers, delay,
                   waits, sent, escaped>>

\* lines 38, 53-56: fetch() rejects with a network error
PlainFetchFails(i, message) ==
    /\ pc[i] = "fetch"
    /\ variant[i] = "plain"
    /\ inflight' = [inflight EXCEPT ![i] = {}]
    /\ hist' = [hist EXCEPT ![i] = Append(@, Outcome("network", NoStatus, message))]
    /\ PlainCatch(i, ErrorMessageResponse(message))
    /\ UNCHANGED <<inputs, apiUrl, prevDelay, attempt, calls, timers, resp,
                   delay, waits>>

\* lines 45-46, 53-56: response.text() resolves and the error is thrown
PlainTextResolves(i, errorText) ==
    /\ pc[i] = "text"
    /\ variant[i] = "plain"
    /\ hist' = [hist EXCEPT ![i] = SetRead(@, errorText)]
    /\ PlainCatch(i, WrappedUpstreamErrorResponse(resp[i], errorText))
    /\ UNCHANGED <<inputs, apiUrl, prevDelay, attempt, calls, inflight,
                   timers, resp, delay, waits>>

\* lines 45, 53-56: response.text() rejects
PlainTextRejects(i) ==
    /\ pc[i] = "text"
    /\ variant[i] = "plain"
    /\ hist' = [hist EXCEPT ![i] = SetRead(@, ReadFailed)]
    /\ PlainCatch(i, ErrorMessageResponse(BodyReadMessage))
    /\ UNCHANGED <<inputs, apiUrl, prevDelay, attempt, calls, inflight,
                   timers, resp, delay, waits>>

\* lines 49-51: response.json() resolves
PlainJsonResolves(i, result) ==
    /\ pc[i] = "json"
    /\ variant[i] = "plain"
    /\ hist' = [hist EXCEPT ![i] = SetRead(@, result)]
    /\ Finish(i, SuccessResponse(result))
    /\ UNCHANGED <<inputs, apiUrl, prevDelay, attempt, calls, inflight,
                   timers, resp, delay, waits, escaped>>

\* lines 49, 53-56: response.json() rejects
PlainJsonRejects(i) ==
    /\ pc[i] = "json"
    /\ variant[i] = "plain"
    /\ hist' = [hist EXCEPT ![i] = SetRead(@, ReadFailed)]
    /\ PlainCatch(i, ErrorMessageResponse(BodyReadMessage))
    /\ UNCHANGED <<inputs, apiUrl, prevDelay, attempt, calls, inflight,
                   timers, resp, delay, waits>>

----------------------------------------------------------------------------
(* The handler without retries, src/netlify/functions/gemini-proxy.js. *)

\* lines 64-71: the catch of the handler
NetlifyCatch(i, r) ==
    /\ Finish(i, r)
    /\ UNCHANGED escaped

\* lines 1-49: from the call of the handler to the await of fetch()
NetlifyInvoke(i) ==
    /\ pc[i] = "idle"
    /\ variant[i] = "netlify"
    /\ IF method[i] = "OPTIONS"
       THEN /\ Finish(i, PreflightResponse)
            /\ UNCHANGED <<calls, inflight, escaped, apiUrl>>
       ELSE IF method[i] # "POST"
       THEN /\ Finish(i, MethodNotAllowedResponse)
            /\ UNCHANGED <<calls, inflight, escaped, apiUrl>>
       ELSE IF ~bodyOk[i]
       THEN /\ NetlifyCatch(i, ErrorMessageResponse(ParseMessage))
            /\ UNCHANGED <<calls, inflight, apiUrl>>
       ELSE IF Falsy(env[i])
       THEN /\ NetlifyCatch(i, ErrorMessageResponse(ConfigMessage))
            /\ UNCHANGED <<calls, inflight, apiUrl>>
       ELSE /\ apiUrl' = [apiUrl EXCEPT ![i] = env[i]]
            /\ calls' = [calls EXCEPT ![i] = @ + 1]
            /\ inflight' = [inflight EXCEPT ![i] = @ \cup {0}]
            /\ pc' = [pc EXCEPT ![i] = "fetch"]
            /\ UNCHANGED <<sent, escaped>>
    /\ UNCHANGED <<inputs, attempt, timers, resp, delay, waits, hist,
                   prevDelay>>

\* lines 45-56: fetch() resolves with a response
NetlifyFetchResponds(i, s) ==
    /\ pc[i] = "fetch"
    /\ variant[i] = "netlify"
    /\ inflight' = [inflight EXCEPT ![i] = {}]
    /\ resp' = [resp EXCEPT ![i] = s]
    /\ hist' = [hist EXCEPT ![i] = Append(@, Outcome("status", s, ""))]
    /\ pc' = [pc EXCEPT ![i] = IF ~ok(s) THEN "text" ELSE "json"]
    /\ UNCHANGED <<inputs, apiUrl, prevDelay, attempt, calls, timers, delay,
                   waits, sent, escaped>>

\* lines 45, 64-71: fetch() rejects with a network error
NetlifyFetchFails(i, message) ==
    /\ pc[i] = "fetch"
    /\ variant[i] = "netlify"
    /\ inflight' = [inflight EXCEPT ![i] = {}]
    /\ hist' = [hist EXCEPT ![i] = Append(@, Outcome("network", NoStatus, message))]
    /\ NetlifyCatch(i, ErrorMessageResponse(message))
    /\ UNCHANGED <<inputs, apiUrl, prevDelay, attempt, calls, timers, resp,
                   delay, waits>>

\* lines 52-53, 64-71: response.text() resolves and the error is thrown
NetlifyTextResolves(i, errorText) ==
    /\ pc[i] = "text"
    /\ variant[i] = "netlify"
    /\ hist' = [hist EXCEPT ![i] = SetRead(@, errorText)]
    /\ NetlifyCatch(i, WrappedUpstreamErrorResponse(resp[i], errorText))
    /\ UNCHANGED <<inputs, apiUrl, prevDelay, attempt, calls, inflight,
                   timers, resp, delay, waits>>

\* lines 52, 64-71: response.text() rejects
NetlifyTextRejects(i) ==
    /\ pc[i] = "text"
    /\ variant[i] = "netlify"
    /\ hist' = [hist EXCEPT ![i] = SetRead(@, ReadFailed)]
    /\ NetlifyCatch(i, ErrorMessageResponse(BodyReadMessage))
    /\ UNCHANGED <<inputs, apiUrl, prevDelay, attempt, calls, inflight,
                   timers, resp, delay, waits>>

\* lines 56-62: response.json() resolves
NetlifyJsonResolves(i, result) ==
    /\ pc[i] = "json"
    /\ variant[i] = "netlify"
    /\ hist' = [hist EXCEPT ![i] = SetRead(@, result)]
    /\ Finish(i, SuccessResponse(result))
    /\ UNCHANGED <<inputs, apiUrl, prevDelay, attempt, calls, inflight,
                   timers, resp, delay, waits, escaped>>

\* lines 56, 64-71: response.json() rejects
NetlifyJsonRejects(i) ==
    /\ pc[i] = "json"
    /\ variant[i] = "netlify"
    /\ hist' = [hist EXCEPT ![i] = SetRead(@, ReadFailed)]
    /\ NetlifyCatch(i, ErrorMessageResponse(BodyReadMessage))
    /\ UNCHANGED <<inputs, apiUrl, prevDelay, attempt, calls, inflight,
                   timers, resp, delay, waits>>

----------------------------------------------------------------------------
Next ==
    \/ \E i \in DOMAIN pc : Invoke(i)
    \/ \E i \in DOMAIN pc : \E s \in Statuses : FetchResponds(i, s)
    \/ \E i \in DOMAIN pc : \E m \in NetworkMessages : FetchFails(i, m)
    \/ \E i \in DOMAIN pc : \E a \in 0 .. MAX_RETRIES : TimeoutFires(i, a)
    \/ \E i \in DOMAIN pc : \E b \in Bodies : JsonResolves(i, b)
    \/ \E i \in DOMAIN pc : JsonRejects(i)
    \/ \E i \in DOMAIN pc : \E b \in Bodies : TextResolves(i, b)
    \/ \E i \in DOMAIN pc : TextRejects(i)
    \/ \E i \in DOMAIN pc : BackoffElapsed(i)
    \/ \E i \in DOMAIN pc : PlainInvoke(i)
    \/ \E i \in DOMAIN pc : \E s \in Statuses : PlainFetchResponds(i, s)
    \/ \E i \in DOMAIN pc : \E m \in NetworkMessages : PlainFetchFails(i, m)
    \/ \E i \in DOMAIN pc : \E b \in Bodies : PlainTextResolves(i, b)
    \/ \E i \in DOMAIN pc : PlainTextRejects(i)
    \/ \E i \in DOMAIN pc : \E b \in Bodies : PlainJsonResolves(i, b)
    \/ \E i \in DOMAIN pc : PlainJsonRejects(i)
    \/ \E i \in DOMAIN pc : NetlifyInvoke(i)
    \/ \E i \in DOMAIN pc : \E s \in Statuses : NetlifyFetchResponds(i, s)
    \/ \E i \in DOMAIN pc : \E m \in NetworkMessages : NetlifyFetchFails(i, m)
    \/ \E i \in DOMAIN pc : \E b \in Bodies : NetlifyTextResolves(i, b)
    \/ \E i \in DOMAIN pc : NetlifyTextRejects(i)
    \/ \E i \in DOMAIN pc : \E b \in Bodies : NetlifyJsonResolves(i, b)
    \/ \E i \in DOMAIN pc : NetlifyJsonRejects(i)

Spec == Init /\ [][Next]_vars

----------------------------------------------------------------------------
(* Two invocations side by side, interleaved at their await points.  They  *)
(* may be served by different handlers and by processes whose credentials  *)
(* differ.  Each invocation is followed for its first MaxCallsMulti remote  *)
(* calls, and the upstream answers from UpstreamMulti.                      *)

MaxCallsMulti == 2
PairInvocations == {1, 2}
KeysMulti == {"", "key-A", "key-B"}

\* By symmetry invocation 1 is the one that holds "key-A" when it holds a key.
InitMulti ==
    /\ InitWith(PairInvocations, KeysMulti)
    /\ env[1] # "key-B"

UpstreamMulti(h) ==
    \A k \in 1 .. Len(h) :
        /\ h[k].status \in {NoStatus, 200, 404, 500}
        /\ h[k].msg \in {"", "fetch failed", AbortMessage}
        /\ h[k].read \in {NotRead, ReadFailed, "body-1"}

BoundMulti ==
    \A i \in PairInvocations :
        /\ calls[i] <= MaxCallsMulti
        /\ UpstreamMulti(hist[i])
        /\ delay[i] # NoDelay => delay[i] = BackoffDelay(attempt[i], 0)

NextMulti ==
    \/ \E i \in DOMAIN pc : Invoke(i)
           /\ BoundMulti'
    \/ \E i \in DOMAIN pc : \E s \in Statuses : FetchResponds(i, s)
           /\ BoundMulti'
    \/ \E i \in DOMAIN pc : \E m \in NetworkMessages : FetchFails(i, m)
           /\ BoundMulti'
    \/ \E i \in DOMAIN pc : \E a \in 0 .. MAX_RETRIES : TimeoutFires(i, a)
           /\ BoundMulti'
    \/ \E i \in DOMAIN pc : \E b \in Bodies : JsonResolves(i, b)
           /\ BoundMulti'
    \/ \E i \in DOMAIN pc : JsonRejects(i)
           /\ BoundMulti'
    \/ \E i \in DOMAIN pc : \E b \in Bodies : TextResolves(i, b)
           /\ BoundMulti'
    \/ \E i \in DOMAIN pc : TextRejects(i)
           /\ BoundMulti'
    \/ \E i \in DOMAIN pc : BackoffElapsed(i)
           /\ BoundMulti'
    \/ \E i \in DOMAIN pc : PlainInvoke(i)
           /\ BoundMulti'
    \/ \E i \in DOMAIN pc : \E s \in Statuses : PlainFetchResponds(i, s)
           /\ BoundMulti'
    \/ \E i \in DOMAIN pc : \E m \in NetworkMessages : PlainFetchFails(i, m)
           /\ BoundMulti'
    \/ \E i \in DOMAIN pc : \E b \in Bodies : PlainTextResolves(i, b)
           /\ BoundMulti'
    \/ \E i \in DOMAIN pc : PlainTextRejects(i)
           /\ BoundMulti'
    \/ \E i \in DOMAIN pc : \E b \in Bodies : PlainJsonResolves(i, b)
           /\ BoundMulti'
    \/ \E i \in DOMAIN pc : PlainJsonRejects(i)
           /\ BoundMulti'
    \/ \E i \in DOMAIN pc : NetlifyInvoke(i)
           /\ BoundMulti'
    \/ \E i \in DOMAIN pc : \E s \in Statuses : NetlifyFetchResponds(i, s)
           /\ BoundMulti'
    \/ \E i \in DOMAIN pc : \E m \in NetworkMessages : NetlifyFetchFails(i, m)
           /\ BoundMulti'
    \/ \E i \in DOMAIN pc : \E b \in Bodies : NetlifyTextResolves(i, b)
           /\ BoundMulti'
    \/ \E i \in DOMAIN pc : NetlifyTextRejects(i)
           /\ BoundMulti'
    \/ \E i \in DOMAIN pc : \E b \in Bodies : NetlifyJsonResolves(i, b)
           /\ BoundMulti'
    \/ \E i \in DOMAIN pc : NetlifyJsonRejects(i)
           /\ BoundMulti'

SpecMulti == InitMulti /\ [][NextMulti]_vars

\* The runtime runs a called handler and fires every scheduled timer; the
\* upstream is under no obligation to answer or to finish a body.
TimersFire ==
    \A i \in Invocations :
        /\ WF_vars(Invoke(i))
        /\ WF_vars(PlainInvoke(i))
        /\ WF_vars(NetlifyInvoke(i))
        /\ WF_vars(BackoffElapsed(i))
        /\ \A a \in 0 .. MAX_RETRIES - 1 : WF_vars(TimeoutFires(i, a))

SpecLive == Init /\ [][Next]_vars /\ TimersFire

----------------------------------------------------------------------------
(* Vocabulary of the properties.  The classification of outcomes is written *)
(* out here from the specification's wording, not taken from the handler.   *)

RetryInvocations == {i \in DOMAIN pc : variant[i] = "retry"}
PostRetryInvocations == {i \in RetryInvocations : method[i] = "POST"}

Last(h) == h[Len(h)]
IsTransportFailure(o) == o.kind \in {"network", "timeout"}
IsSuccessStatus(o) == o.kind = "status" /\ o.status \in 200 .. 299
IsRetryableStatusOutcome(o) ==
    o.kind = "status" /\ (o.status = 429 \/ o.status >= 500)
IsTerminalStatus(o) ==
    /\ o.kind = "status"
    /\ o.status \notin 200 .. 299
    /\ o.status # 429
    /\ o.status < 500
IsRetryableOutcome(o) ==
    \/ IsTransportFailure(o)
    \/ IsRetryableStatusOutcome(o) /\ o.read = NotRead
NoReadFailed(h) == \A k \in 1 .. Len(h) : h[k].read # ReadFailed
AllRetryableStatus(h) == \A k \in 1 .. Len(h) : IsRetryableStatusOutcome(h[k])

----------------------------------------------------------------------------
\* C1: when every one of the MAX_RETRIES attempts received a retryable status
\* (429 or >= 500), the invocation ends with the generic 'Maximum retries
\* exceeded' 504 result carrying no upstream body or error text, after exactly
\* MAX_RETRIES remote calls.  (Stated for runs in which no body read failed.)
C1_ExhaustedStatusIsGeneric ==
    \A i \in PostRetryInvocations :
        ( /\ pc[i] = "done"
          /\ Len(hist[i]) = MAX_RETRIES
          /\ AllRetryableStatus(hist[i])
          /\ NoReadFailed(hist[i]) )
        => /\ sent[i] = <<MaxRetriesResponse>>
           /\ calls[i] = MAX_RETRIES

\* C2: the status of the response of a completed POST invocation is 200
\* exactly when the last attempt received a 2xx status, the upstream's status
\* (in an upstream-error result) exactly when it received a non-retryable
\* status, 504 exactly when the last permitted attempt ended in a retryable
\* outcome, and 500 exactly when the failure arose before the first attempt.
\* (Stated for runs in which no body read failed.)
C2_StatusMapping ==
    \A i \in PostRetryInvocations :
        (pc[i] = "done" /\ Len(sent[i]) = 1 /\ NoReadFailed(hist[i])) =>
            LET r == sent[i][1]
                h == hist[i]
            IN  /\ (r.status = 200) <=> (h # <<>> /\ IsSuccessStatus(Last(h)))
                /\ (r.error = "Gemini API error" /\ r.status = r.upstream)
                       <=> (h # <<>> /\ IsTerminalStatus(Last(h)))
                /\ (r.status = 504)
                       <=> ( /\ Len(h) = MAX_RETRIES
                             /\ \/ IsTransportFailure(Last(h))
                                \/ IsRetryableStatusOutcome(Last(h)) )
                /\ (r.status = 500) <=> (calls[i] = 0)

\* C3: exactly one terminal outcome per invocation of the retrying handler:
\* at most one response is ever sent; once a response has been sent there is
\* no further remote call, backoff wait or response; and the handler finishes
\* only with a response sent and no exception escaping.
C3_State ==
    \A i \in RetryInvocations :
        /\ Len(sent[i]) <= 1
        /\ ~escaped[i]
        /\ (pc[i] = "done") <=> (Len(sent[i]) = 1)
        /\ Len(sent[i]) = 1 => inflight[i] = {} /\ delay[i] = NoDelay
C3_Step ==
    \A i \in RetryInvocations :
        sent[i] # <<>> =>
            /\ sent'[i] = sent[i]
            /\ calls'[i] = calls[i]
            /\ waits'[i] = waits[i]
            /\ pc'[i] = pc[i]
C3_OneTerminalOutcome == [](C3_State) /\ [][C3_Step]_vars
C3_Witness ==
    \E i \in PostRetryInvocations :
        pc[i] = "done" /\ calls[i] = 3 /\ Len(sent[i]) = 1 /\ timers[i] # {}

\* C4: the number of remote calls issued by an invocation of the retrying
\* handler never exceeds MAX_RETRIES, whatever the upstream outcomes are; the
\* call of attempt 0 is the first of them.
C4_CallsBounded ==
    \A i \in RetryInvocations :
        /\ calls[i] <= MAX_RETRIES
        /\ pc[i] \in {"fetch", "json", "text", "backoff"} => calls[i] = attempt[i] + 1
C4_Witness ==
    \E i \in RetryInvocations :
        /\ calls[i] = MAX_RETRIES
        /\ pc[i] = "done"
        /\ \E k \in 1 .. Len(hist[i]) : hist[i][k].kind = "timeout"
        /\ \E k \in 1 .. Len(hist[i]) : hist[i][k].kind = "network"
        /\ \E k \in 1 .. Len(hist[i]) : hist[i][k].status = 429

\* C5: if the attempts before the last each ended in a retryable outcome and
\* the last attempt received a 2xx status whose body was read, the invocation
\* has ended with status 200 carrying that body, after exactly one remote call
\* per attempt and one backoff wait between consecutive attempts, with no call
\* in flight and no backoff pending.
C5_SuccessEndsTheLoop ==
    \A i \in RetryInvocations :
        LET h == hist[i] IN
        ( /\ h # <<>>
          /\ IsSuccessStatus(Last(h))
          /\ Last(h).read \in Bodies
          /\ \A k \in 1 .. Len(h) - 1 : IsRetryableOutcome(h[k]) )
        => /\ pc[i] = "done"
           /\ Len(sent[i]) = 1
           /\ sent[i][1].status = 200
           /\ sent[i][1].body = Last(h).read
           /\ sent[i][1].error = ""
           /\ calls[i] = Len(h)
           /\ waits[i] = Len(h) - 1
           /\ inflight[i] = {}
           /\ delay[i] = NoDelay
C5_Witness ==
    \E i \in RetryInvocations :
        /\ pc[i] = "done"
        /\ Len(hist[i]) = 3
        /\ hist[i][1].status = 429
        /\ hist[i][2].status = 429
        /\ hist[i][3].status = 200
        /\ hist[i][3].read = "body-2"
        /\ calls[i] = 3

\* C6: a response whose status is non-2xx, not 429 and below 500 ends the
\* invocation at once: while its body is read no call is in flight and no
\* backoff is pending, and once the body is read the response sent carries
\* that upstream status and that body; no backoff wait and no remote call
\* follows the attempt (one call when the attempt is attempt 0).
C6_TerminalStatusEndsTheLoop ==
    \A i \in RetryInvocations :
        LET h == hist[i] IN
        (h # <<>> /\ IsTerminalStatus(Last(h)) /\ Last(h).read # ReadFailed)
        => /\ calls[i] = Len(h)
           /\ waits[i] = Len(h) - 1
           /\ inflight[i] = {}
           /\ delay[i] = NoDelay
           /\ IF Last(h).read = NotRead
              THEN pc[i] = "text" /\ sent[i] = <<>>
              ELSE /\ pc[i] = "done"
                   /\ Len(sent[i]) = 1
                   /\ sent[i][1].status = Last(h).status
                   /\ sent[i][1].upstream = Last(h).status
                   /\ sent[i][1].details = Last(h).read
C6_Witness ==
    \E i \in RetryInvocations :
        /\ pc[i] = "done"
        /\ Len(hist[i]) = 1
        /\ hist[i][1].status = 404
        /\ sent[i][1].status = 404
        /\ sent[i][1].details = "body-1"
        /\ calls[i] = 1

\* C7: when the last permitted attempt ends in a transport failure (timeout
\* abort or network error) the response is the 504 result and its details are
\* the message of that attempt's error; MAX_RETRIES remote calls were made.
C7_TransportExhaustionKeepsMessage ==
    \A i \in RetryInvocations :
        LET h == hist[i] IN
        (Len(h) = MAX_RETRIES /\ IsTransportFailure(Last(h)))
        => /\ pc[i] = "done"
           /\ Len(sent[i]) = 1
           /\ sent[i][1].status = 504
           /\ sent[i][1].details = Last(h).msg
           /\ calls[i] = MAX_RETRIES
C7_Witness ==
    \E i \in RetryInvocations :
        /\ pc[i] = "done"
        /\ Len(hist[i]) = MAX_RETRIES
        /\ \A k \in 1 .. MAX_RETRIES : IsTransportFailure(hist[i][k])
        /\ hist[i][1].msg = "fetch failed"
        /\ hist[i][MAX_RETRIES - 1].kind = "timeout"
        /\ hist[i][MAX_RETRIES].msg = "socket hang up"
        /\ sent[i][1].details = "socket hang up"
        /\ calls[i] = MAX_RETRIES

\* C8: every backoff wait follows an attempt i with 0 <= i <= MAX_RETRIES - 2
\* and lasts at least BASE_DELAY * 2^i and less than BASE_DELAY * 2^i +
\* JITTER_BOUND milliseconds, on the status path and on the transport-failure
\* path alike, with no cap on the delay.
C8_BackoffWindow ==
    \A i \in RetryInvocations :
        /\ (pc[i] = "backoff") <=> (delay[i] # NoDelay)
        /\ pc[i] = "backoff" =>
              /\ attempt[i] \in 0 .. MAX_RETRIES - 2
              /\ Len(hist[i]) = attempt[i] + 1
              /\ BASE_DELAY * 2^attempt[i] <= delay[i]
              /\ delay[i] < BASE_DELAY * 2^attempt[i] + JITTER_BOUND
C8_Witness ==
    \E i \in RetryInvocations :
        /\ pc[i] = "backoff"
        /\ attempt[i] = 3
        /\ delay[i] = 1719
        /\ hist[i][1].kind = "status"
        /\ IsTransportFailure(hist[i][4])

\* C9 as stated: a POST invocation of any handler made while the credential is
\* absent ends with the status-500 configuration-error result.
C9_AlwaysConfigurationError ==
    \A i \in DOMAIN pc :
        (method[i] = "POST" /\ env[i] \in {Unset, ""} /\ pc[i] = "done")
        => /\ Len(sent[i]) = 1
           /\ sent[i][1].status = 500
           /\ sent[i][1].error = ConfigMessage

\* C9: a POST invocation of any handler made while the credential is absent
\* issues no remote call and schedules no timeout or backoff timer in any
\* state, and ends with a status-500 error result, which is the 'API Key not
\* configured' result whenever the request body could be read.
C9_NoCallWithoutCredential ==
    \A i \in DOMAIN pc :
        (method[i] = "POST" /\ env[i] \in {Unset, ""})
        => /\ calls[i] = 0
           /\ inflight[i] = {}
           /\ timers[i] = {}
           /\ delay[i] = NoDelay
           /\ waits[i] = 0
           /\ pc[i] \in {"idle", "done"}
           /\ pc[i] = "done" =>
                 /\ Len(sent[i]) = 1
                 /\ sent[i][1].status = 500
                 /\ sent[i][1].error # ""
                 /\ bodyOk[i] => sent[i][1].error = ConfigMessage
C9_Witness ==
    \E i \in DOMAIN pc :
          /\ env[i] = ""
          /\ variant[i] = "netlify"
          /\ method[i] = "POST"
          /\ bodyOk[i]
          /\ pc[i] = "done"
          /\ sent[i][1].error = ConfigMessage

\* C10: the timeout timer of an attempt is pending only while the call of
\* that attempt is in flight: none is pending during a backoff wait, during a
\* later attempt or after the response was sent.
C10_NoStrayTimer ==
    \A i \in RetryInvocations :
        /\ timers[i] \subseteq inflight[i]
        /\ Cardinality(timers[i]) <= 1

\* C12: every POST invocation of the retrying handler eventually sends its
\* response, provided only that scheduled timers fire.
C12_EventuallyResponds ==
    \A i \in Invocations :
        (variant[i] = "retry" /\ method[i] = "POST") => <>(pc[i] = "done")

\* C13: a failure while reading the body of a 2xx response or of a response
\* with a non-retryable status is never followed by a backoff wait or by
\* another remote call: the attempt it happened on is the last one.
C13_BodyFailureIsNotRetried ==
    \A i \in RetryInvocations :
        \A k \in 1 .. Len(hist[i]) :
            ( /\ hist[i][k].read = ReadFailed
              /\ IsSuccessStatus(hist[i][k]) \/ IsTerminalStatus(hist[i][k]) )
            => /\ k = Len(hist[i])
               /\ pc[i] = "done"
               /\ calls[i] = k
               /\ waits[i] = k - 1

\* The control state of the specification's state machine.
Control(p, out) ==
    CASE p = "idle" -> "Idle"
      [] p \in {"fetch", "json", "text"} -> "Attempting"
      [] p = "backoff" -> "RetryableWait"
      [] OTHER -> IF Len(out) = 1 /\ out[1].status = 200
                  THEN "Success" ELSE "TerminalError"

ControlTransitions ==
    {<<"Idle", "Attempting">>, <<"Attempting", "Success">>,
     <<"Attempting", "TerminalError">>, <<"Attempting", "RetryableWait">>,
     <<"RetryableWait", "Attempting">>}

\* C14: once the loop is entered the control state changes only along
\* Idle -> Attempting -> {Success, TerminalError, RetryableWait} and
\* RetryableWait -> Attempting; Success and TerminalError are never left; and
\* RetryableWait is entered only after a retryable outcome (429, >= 500,
\* timeout or network failure) of an attempt with index < MAX_RETRIES - 1.
C14_Step ==
    \A i \in RetryInvocations :
        LET from == Control(pc[i], sent[i])
            to == Control(pc'[i], sent'[i])
        IN  /\ (from # to /\ (from # "Idle" \/ to = "Attempting"))
                   => <<from, to>> \in ControlTransitions
            /\ (from # to /\ to = "RetryableWait")
                   => /\ attempt'[i] < MAX_RETRIES - 1
                      /\ hist'[i] # <<>>
                      /\ \/ IsTransportFailure(Last(hist'[i]))
                         \/ /\ IsRetryableStatusOutcome(Last(hist'[i]))
                            /\ Last(hist'[i]).read = NotRead
C14_ControlStateMachine == [][C14_Step]_vars

\* C15: remote calls and backoff waits alternate: the step that ends a backoff
\* wait issues a remote call, no wait follows attempt MAX_RETRIES - 1, and the
\* number of waits is the number of calls minus one whenever no wait is
\* pending (so it is at most MAX_RETRIES - 1 when the invocation has ended).
C15_State ==
    \A i \in PostRetryInvocations :
        /\ pc[i] = "backoff" => waits[i] = calls[i] /\ attempt[i] < MAX_RETRIES - 1
        /\ (pc[i] # "backoff" /\ calls[i] > 0) => waits[i] = calls[i] - 1
        /\ waits[i] <= MAX_RETRIES - 1
C15_Step ==
    \A i \in PostRetryInvocations :
        /\ (pc[i] = "backoff" /\ pc'[i] # "backoff")
               => pc'[i] = "fetch" /\ calls'[i] = calls[i] + 1
        /\ waits'[i] # waits[i]
               => /\ waits'[i] = waits[i] + 1
                  /\ pc[i] \in {"fetch", "json", "text"}
                  /\ pc'[i] = "backoff"
C15_CallsAndWaitsAlternate == [](C15_State) /\ [][C15_Step]_vars
C15_Witness ==
    \E i \in PostRetryInvocations :
        /\ pc[i] = "done"
        /\ calls[i] = MAX_RETRIES
        /\ waits[i] = MAX_RETRIES - 1
        /\ IsRetryableStatusOutcome(Last(hist[i]))

\* C16: at most one remote call of an invocation is in flight: a call is
\* issued only when no call is in flight, every earlier attempt has its
\* outcome and the backoff wait after the previous attempt has elapsed; the
\* call of an attempt that timed out is no longer in flight when the next
\* attempt starts.
C16_State ==
    \A i \in RetryInvocations :
        /\ Cardinality(inflight[i]) <= 1
        /\ inflight[i] # {} <=> pc[i] = "fetch"
        /\ pc[i] = "fetch" => inflight[i] = {attempt[i]} /\ Len(hist[i]) = attempt[i]
C16_Step ==
    \A i \in RetryInvocations :
        calls'[i] # calls[i]
            => /\ inflight[i] = {}
               /\ Len(hist[i]) = calls[i]
               /\ calls[i] > 0 => pc[i] = "backoff"
C16_OneCallInFlight == [](C16_State) /\ [][C16_Step]_vars
C16_Witness ==
    \E i \in RetryInvocations :
        /\ pc[i] = "fetch"
        /\ attempt[i] = 2
        /\ inflight[i] = {2}
        /\ hist[i][1].kind = "timeout"
        /\ hist[i][2].kind = "network"

\* C18: the delay of a backoff wait is never below the delay of the wait
\* before it.  (The jitter stays below BASE_DELAY, so this holds for every
\* jitter draw; with zero jitter the delays are BASE_DELAY * 2^i.)
C18_DelaysNonDecreasing ==
    \A i \in RetryInvocations :
        /\ (pc[i] = "backoff" /\ prevDelay[i] # NoDelay) => delay[i] >= prevDelay[i]
        /\ prevDelay[i] # NoDelay <=> attempt[i] > 0
C18_Witness ==
    \E i \in RetryInvocations :
        /\ pc[i] = "backoff"
        /\ attempt[i] = 2
        /\ prevDelay[i] = 400
        /\ delay[i] = 800

\* C19: in every handler an OPTIONS request is answered with status 200 and a
\* request that is neither OPTIONS nor POST with status 405, both without a
\* remote call or a timer; a remote call is only ever issued by a POST
\* invocation whose credential is present.
C19_MethodGate ==
    \A i \in DOMAIN pc :
        /\ method[i] # "POST" =>
              /\ calls[i] = 0
              /\ inflight[i] = {}
              /\ timers[i] = {}
              /\ delay[i] = NoDelay
              /\ pc[i] \in {"idle", "done"}
              /\ pc[i] = "done" =>
                    /\ Len(sent[i]) = 1
                    /\ sent[i][1].status = IF method[i] = "OPTIONS" THEN 200 ELSE 405
        /\ calls[i] > 0 => method[i] = "POST" /\ env[i] \notin {Unset, ""}
C19_Witness ==
    /\ \E i \in DOMAIN pc :
          /\ variant[i] = "plain"
          /\ method[i] = "GET"
          /\ pc[i] = "done"
          /\ sent[i][1].status = 405


\* C11: the credential flows only into the URL of the upstream request: two
\* invocations of the same handler with the same request and the same upstream
\* outcomes but (possibly different) non-empty credentials have sent the same
\* response, no field of a response is a credential, and the credential is
\* never modified.
C11_State ==
    /\ \A i \in DOMAIN pc :
          /\ apiUrl[i] \in {NoUrl, env[i]}
          /\ \A k \in 1 .. Len(sent[i]) :
                {sent[i][k].error, sent[i][k].message, sent[i][k].details,
                 sent[i][k].body} \cap {"key-A", "key-B"} = {}
    /\ \A i, j \in DOMAIN pc :
          ( /\ variant[i] = variant[j]
            /\ method[i] = method[j]
            /\ bodyOk[i] = bodyOk[j]
            /\ env[i] \notin {Unset, ""}
            /\ env[j] \notin {Unset, ""}
            /\ hist[i] = hist[j]
            /\ pc[i] = "done"
            /\ pc[j] = "done" )
          => sent[i] = sent[j]
C11_CredentialDoesNotReachClient == [](C11_State) /\ [][env' = env]_vars
C11_Witness ==
    /\ env[1] = "key-A"
    /\ env[2] = "key-B"
    /\ variant[1] = "plain"
    /\ variant[2] = "plain"
    /\ pc[1] = "done"
    /\ pc[2] = "done"
    /\ hist[1] = hist[2]
    /\ Len(hist[1]) = 1
    /\ hist[1][1].kind = "network"
    /\ sent[1] = sent[2]
    /\ apiUrl[1] # apiUrl[2]

\* The state one invocation owns.
Own(i) ==
    <<pc[i], attempt[i], calls[i], inflight[i], timers[i], resp[i], delay[i],
      waits[i], sent[i], escaped[i], hist[i], apiUrl[i], prevDelay[i]>>

\* C17: interleaved invocations do not interfere: a step changes the state of
\* one invocation only (a timeout firing in one never aborts the call of the
\* other), each invocation's counters follow from its own outcomes, and two
\* finished invocations with the same request, the same credential state and
\* the same outcomes have the same result and the same number of calls.
C17_State ==
    /\ \A i \in DOMAIN pc :
          /\ calls[i] = Len(hist[i]) + Cardinality(inflight[i])
          /\ variant[i] = "retry" /\ calls[i] > 0 => calls[i] = attempt[i] + 1
          /\ \A a \in timers[i] : a <= attempt[i]
    /\ \A i, j \in DOMAIN pc :
          ( /\ variant[i] = variant[j]
            /\ method[i] = method[j]
            /\ bodyOk[i] = bodyOk[j]
            /\ (env[i] \in {Unset, ""}) = (env[j] \in {Unset, ""})
            /\ hist[i] = hist[j]
            /\ pc[i] = "done"
            /\ pc[j] = "done" )
          => /\ sent[i] = sent[j]
             /\ calls[i] = calls[j]
             /\ waits[i] = waits[j]
C17_Step ==
    \A i, j \in DOMAIN pc :
        (i # j /\ Own(i)' # Own(i)) => Own(j)' = Own(j)
C17_InvocationsIndependent == [](C17_State) /\ [][C17_Step]_vars
C17_Witness ==
    /\ variant[1] = "retry"
    /\ variant[2] = "retry"
    /\ pc[1] = "backoff"
    /\ Len(hist[1]) = 1
    /\ hist[1][1].kind = "timeout"
    /\ pc[2] = "fetch"
    /\ attempt[2] = 1
    /\ inflight[2] = {1}
    /\ timers[2] = {0, 1}

\* C20: side by side on the same request, the same credential state and the
\* same outcome of the first upstream call, the retrying handler and a handler
\* without retries return the same status and make the same number of calls
\* whenever the retrying handler finishes within its first attempt (method
\* gate, missing credential, 2xx, non-retryable 4xx); a handler without
\* retries never makes more than one call.
C20_VariantsAgree ==
    /\ \A j \in DOMAIN pc : variant[j] # "retry" => calls[j] <= 1
    /\ \A i, j \in DOMAIN pc :
          ( /\ variant[i] = "retry"
            /\ variant[j] # "retry"
            /\ method[i] = method[j]
            /\ bodyOk[i] = bodyOk[j]
            /\ (env[i] \in {Unset, ""}) = (env[j] \in {Unset, ""})
            /\ pc[i] = "done"
            /\ pc[j] = "done"
            /\ hist[i] = hist[j]
            /\ \/ hist[i] = <<>>
               \/ /\ Len(hist[i]) = 1
                  /\ hist[i][1].read \in Bodies
                  /\ IsSuccessStatus(hist[i][1]) \/ IsTerminalStatus(hist[i][1]) )
          => /\ sent[i][1].status = sent[j][1].status
             /\ calls[i] = calls[j]


====
